---- MODULE Spec2Model ----
(***************************************************************************)
(* A model of src/src/lib.rs (jweir136/blockchain-rust): Transaction,      *)
(* Block and Blockchain, their Hash implementations, the proof-of-work     *)
(* search of Block::new and the three operations of Blockchain.            *)
(*                                                                         *)
(* Strings are sequences of character codes ('0' is 48).  An f32 amount is *)
(* the record [m, e] standing for the exact value m / 2^e, with |m| below  *)
(* 2^24: every arithmetic step on it rounds to 24 significant bits as the  *)
(* hardware does.  DefaultHasher (the standard library's SipHash) is a     *)
(* deterministic function of the bytes written to it that the model does   *)
(* not compute: memo records the digest of every byte stream hashed so     *)
(* far, the first hash of a stream draws its digest from Digests and every *)
(* later hash of the same stream returns the recorded one.                 *)
(***************************************************************************)
EXTENDS Integers, Sequences, FiniteSets, TLC

VARIABLES
    \* Blockchain (lib.rs 23-27)
    size, pending_transactions, blocks,
    \* the caller of Blockchain: the last call, its argument, how it ended,
    \* what get_size returned, how many add_block calls were made
    lastOp, arg, outcome, ret, calls,
    \* DefaultHasher: digest of every byte stream hashed so far
    memo,
    \* Block::new and calculate_proof_of_work: control point, arguments, locals,
    \* the Blocks built so far, how many calls were made
    pc, transactions, last_hash, proof, string_proof, hash, block, nblocks,
    \* the build profile: whether u64 += 1 is overflow-checked
    overflow_checks,
    \* Transaction::calculate_hash results, per transaction hashed
    txHash,
    \* Block::calculate_hash results, per Block built (by its index in block)
    anchor,
    \* what is_proof_valid returned for the digest in hash
    valid

ledgerVars == <<size, pending_transactions, blocks>>
callVars   == <<lastOp, arg, outcome, ret, calls>>
blockVars  == <<pc, transactions, last_hash, proof, string_proof, hash, block,
                nblocks, overflow_checks>>
vars == <<size, pending_transactions, blocks, lastOp, arg, outcome, ret, calls,
          memo, pc, transactions, last_hash, proof, string_proof, hash, block,
          nblocks, overflow_checks, txHash, anchor, valid>>
auxVars == <<anchor, valid>>

----------------------------------------------------------------------------
(* Bounds of the model.                                                    *)

\* longest pending queue explored
MaxPending == 3
\* add_block calls explored per run
MaxCalls == 2
\* the largest nonce: stands for u64::MAX, after which proof += 1 overflows
MaxNonce == 3
\* Block::new calls explored per run
MaxBlocks == 2
\* Transaction::calculate_hash calls explored per run
MaxHashed == 2
\* is_proof_valid is given every digest up to this one, and the samples below
MaxSmallDigest == 120

(* Program constants.                                                      *)

\* take(6), lib.rs 115
ProofSuffixLen == 6
\* 100f32, lib.rs 34 and 51
CentsPerDollar == 100
\* significant bits of an f32, the type of Transaction.amount (lib.rs 10)
F32Bits == 24

----------------------------------------------------------------------------
(* Inputs.                                                                 *)

Bob   == <<98, 111, 98>>
Alice == <<97, 108, 105, 99, 101>>

F32(m, e) == [m |-> m, e |-> e]

\* 10.0, 10.004f32, 10.006f32, 0.285f32, 0.29f32 (the f32 nearest 0.28999999
\* too: 0.28999999165...), 0.0, -5.0, -700.25
Amt10     == F32(10, 0)
Amt10_004 == F32(5244977, 19)
Amt10_006 == F32(10492051, 20)
Amt0_285  == F32(9563013, 25)
Amt0_29   == F32(9730785, 25)
AmtZero   == F32(0, 0)
AmtNeg5   == F32(-5, 0)
AmtNeg700 == F32(-2801, 2)

Amounts == {Amt10, Amt10_004, Amt10_006, Amt0_285, Amt0_29,
            AmtZero, AmtNeg5, AmtNeg700}

\* u64 digests DefaultHasher::finish may return: zero, one of fewer than six
\* digits, one ending in six zeros
Digests == {0, 7, 1000000}

\* the digests is_proof_valid is given on its own: the small ones, the
\* multiples of 100000 around 1000000 and 2000000, and digests of six to ten
\* digits that end or nearly end in six zeros
DigestSamples ==
    (0..MaxSmallDigest)
        \cup {k * 100000 : k \in 1..21}
        \cup {99999, 999999, 1000001, 1000010, 1234567, 10000000, 10100000,
              123000000, 123400000, 2000000000, 2147000000, 2147483647}

\* last_hash arguments given to Block::new
Anchors == {0, 1234567}

----------------------------------------------------------------------------
(* Transaction (lib.rs 7-11, 73-81).                                       *)

Transaction_new(to, from, amount) ==
    [to |-> to, from |-> from, amount |-> amount]

\* the transactions callers submit to the ledger
LedgerTxs == {Transaction_new(Bob, Alice, Amt10),
              Transaction_new(Alice, Bob, Amt10_004),
              Transaction_new(Bob, Alice, Amt0_29)}

\* the transactions hashed on their own
HashedTxs == {Transaction_new(to, Alice, a) : to \in {Bob, Alice}, a \in Amounts}

----------------------------------------------------------------------------
(* f32 arithmetic and the casts of lib.rs 33-34.                           *)

Abs(x) == IF x < 0 THEN -x ELSE x

RECURSIVE BitLen(_)
BitLen(n) == IF n = 0 THEN 0 ELSE 1 + BitLen(n \div 2)

\* p / 2^e rounded to the nearest f32, ties to even
RoundF32(p, e) ==
    LET a    == Abs(p)
        s    == IF BitLen(a) > F32Bits THEN BitLen(a) - F32Bits ELSE 0
        q    == a \div (2 ^ s)
        r    == a % (2 ^ s)
        half == IF s = 0 THEN 1 ELSE 2 ^ (s - 1)
        up   == s > 0 /\ (r > half \/ (r = half /\ q % 2 = 1))
        q2   == IF up THEN q + 1 ELSE q
    IN  F32(IF p < 0 THEN -q2 ELSE q2, e - s)

\* a cast that drops the sign instead of saturating at 0
AsU32_magnitude(x) ==
    IF x.e >= 0 THEN Abs(x.m) \div (2 ^ x.e) ELSE Abs(x.m) * (2 ^ (-x.e))

\* `x as u32`: toward zero, negative values saturate to 0
AsU32(x) == IF x.m <= 0 THEN 0
            ELSE IF x.e >= 0 THEN x.m \div (2 ^ x.e) ELSE x.m * (2 ^ (-x.e))

\* `d as f32` for d below 2^24: exact
U32AsF32(d) == F32(d, 0)

\* x - y for an integral y
F32Sub(x, y) == RoundF32(x.m - y.m * (2 ^ x.e), x.e)

\* x * 100f32
F32MulInt(x, k) == RoundF32(x.m * k, x.e)

\* lib.rs 33 (and 50)
Dollars(amount) == AsU32(amount)

\* lib.rs 34 (and 51)
Cents(amount) ==
    AsU32(F32MulInt(F32Sub(amount, U32AsF32(Dollars(amount))), CentsPerDollar))

----------------------------------------------------------------------------
(* The bytes each Hash implementation writes to the hasher.                *)

RECURSIVE LeBytes(_, _)
LeBytes(n, k) == IF k = 0 THEN <<>> ELSE <<n % 256>> \o LeBytes(n \div 256, k - 1)

\* str::hash: the bytes, then 0xff
StrBytes(s) == s \o <<255>>
\* u32::hash
U32Bytes(n) == LeBytes(n, 4)
\* the length prefix of a Vec: a usize
LenBytes(n) == LeBytes(n, 8)

\* impl Hash for Transaction, lib.rs 32-40
TransactionBytes(t) ==
    StrBytes(t.to) \o StrBytes(t.from)
        \o U32Bytes(Dollars(t.amount)) \o U32Bytes(Cents(t.amount))

RECURSIVE ConcatTx(_)
ConcatTx(ts) == IF ts = <<>> THEN <<>>
                ELSE TransactionBytes(Head(ts)) \o ConcatTx(Tail(ts))

\* a Block hash that folds last_hash in after the transactions
BlockBytes_chained(b) == ConcatTx(b.transactions) \o LeBytes(b.last_hash, 8)

\* impl Hash for Block, lib.rs 45-58: the transactions only, no length prefix
BlockBytes(b) == ConcatTx(b.transactions)

\* Vec<Transaction>::hash, as Block::new hashes its argument (lib.rs 98)
VecBytes(ts) == LenBytes(Len(ts)) \o ConcatTx(ts)

\* DefaultHasher::new, hash, finish (lib.rs 85-87, 105-107, 126-128): d is the
\* digest of `bytes`
Finish(bytes, d) ==
    /\ d \in Digests
    /\ bytes \in DOMAIN memo => d = memo[bytes]
    /\ memo' = (bytes :> d) @@ memo

----------------------------------------------------------------------------
(* Blockchain (lib.rs 147-164).                                            *)

\* Blockchain::new, lib.rs 149-151
Blockchain_new ==
    /\ size = 0
    /\ pending_transactions = <<>>
    /\ blocks = <<>>

\* get_size reading the wrong field: the length of the pending queue
get_size_pending_len ==
    /\ ret' = Len(pending_transactions)
    /\ lastOp' = "get_size"
    /\ outcome' = "ok"
    /\ UNCHANGED <<ledgerVars, arg, calls, memo>>

\* lib.rs 153-155
get_size ==
    /\ ret' = size
    /\ lastOp' = "get_size"
    /\ outcome' = "ok"
    /\ UNCHANGED <<ledgerVars, arg, calls, memo>>

\* add_transaction inserting at the front of the queue
add_transaction_front(transaction) ==
    /\ Len(pending_transactions) < MaxPending
    /\ pending_transactions' = <<transaction>> \o pending_transactions
    /\ lastOp' = "add_transaction"
    /\ arg' = transaction
    /\ outcome' = "ok"
    /\ UNCHANGED <<size, blocks, ret, calls, memo>>

\* lib.rs 157-159
add_transaction(transaction) ==
    /\ Len(pending_transactions) < MaxPending
    /\ pending_transactions' = Append(pending_transactions, transaction)
    /\ lastOp' = "add_transaction"
    /\ arg' = transaction
    /\ outcome' = "ok"
    /\ UNCHANGED <<size, blocks, ret, calls, memo>>

\* a Block holding the batch ts, as add_block variants build it
SealedBlock(ts) == [proof |-> 0, hash |-> 0, transactions |-> ts, last_hash |-> 0]

\* add_block sealing the pending queue into a Block inserted at the front
add_block_insert_front ==
    /\ calls < MaxCalls
    /\ calls' = calls + 1
    /\ lastOp' = "add_block"
    /\ outcome' = "ok"
    /\ blocks' = <<SealedBlock(pending_transactions)>> \o blocks
    /\ pending_transactions' = <<>>
    /\ size' = size + 1
    /\ UNCHANGED <<arg, ret, memo>>

\* add_block sealing the pending queue into a Block appended last
add_block_sealing ==
    /\ calls < MaxCalls
    /\ calls' = calls + 1
    /\ lastOp' = "add_block"
    /\ outcome' = "ok"
    /\ blocks' = Append(blocks, SealedBlock(pending_transactions))
    /\ pending_transactions' = <<>>
    /\ size' = size + 1
    /\ UNCHANGED <<arg, ret, memo>>

\* add_block taking the pending queue out before it looks at the last block
add_block_take_first ==
    /\ calls < MaxCalls
    /\ calls' = calls + 1
    /\ lastOp' = "add_block"
    /\ pending_transactions' = <<>>
    /\ IF blocks = <<>>
         THEN /\ outcome' = "panic"
              /\ UNCHANGED memo
         ELSE /\ \E d \in Digests : Finish(BlockBytes(blocks[Len(blocks)]), d)
              /\ outcome' = "ok"
    /\ UNCHANGED <<size, blocks, arg, ret>>

\* lib.rs 161-163: last() of an empty Vec is None and unwrap() panics; the
\* unwinding leaves the Blockchain as it was.  Otherwise the digest of the last
\* block is computed and dropped.
add_block ==
    /\ calls < MaxCalls
    /\ calls' = calls + 1
    /\ lastOp' = "add_block"
    /\ IF blocks = <<>>
         THEN /\ outcome' = "panic"
              /\ UNCHANGED memo
         ELSE /\ \E d \in Digests : Finish(BlockBytes(blocks[Len(blocks)]), d)
              /\ outcome' = "ok"
    /\ UNCHANGED <<ledgerVars, arg, ret>>

NoTx == Transaction_new(<<>>, <<>>, AmtZero)

InitCaller ==
    /\ lastOp = "new"
    /\ arg = NoTx
    /\ outcome = "ok"
    /\ ret = 0
    /\ calls = 0

InitIdle ==
    /\ memo = <<>>
    /\ pc = "idle"
    /\ transactions = <<>>
    /\ last_hash = 0
    /\ proof = 0
    /\ string_proof = <<>>
    /\ hash = 0
    /\ block = <<>>
    /\ nblocks = 0
    /\ overflow_checks = FALSE
    /\ txHash = <<>>
    /\ anchor = <<>>
    /\ valid = FALSE

Init == Blockchain_new /\ InitCaller /\ InitIdle

Next ==
    \/ (\E t \in LedgerTxs : add_transaction(t)) /\ UNCHANGED <<blockVars, txHash, auxVars>>
    \/ add_block /\ UNCHANGED <<blockVars, txHash, auxVars>>
    \/ get_size /\ UNCHANGED <<blockVars, txHash, auxVars>>

Spec == Init /\ [][Next]_vars

----------------------------------------------------------------------------
(* Block (lib.rs 91-145).                                                  *)

\* u64::to_string: the decimal digits, most significant first
RECURSIVE to_string(_)
to_string(n) == IF n < 10 THEN <<48 + n>>
                ELSE to_string(n \div 10) \o <<48 + (n % 10)>>

Min(a, b) == IF a < b THEN a ELSE b

\* is_proof_valid taking a string shorter than six characters as valid
is_proof_valid_vacuous(p) ==
    LET proof_string == to_string(p)
        n == Len(proof_string)
    IN  n >= ProofSuffixLen =>
            \A i \in 1..ProofSuffixLen : proof_string[n - i + 1] = 48

\* is_proof_valid looking at one character too few
is_proof_valid_short(p) ==
    LET proof_string == to_string(p)
        n == Len(proof_string)
    IN  \A i \in 1..Min(ProofSuffixLen - 1, n) : proof_string[n - i + 1] = 48

\* lib.rs 112-122: the last (up to) six characters are all '0'
is_proof_valid(p) ==
    LET proof_string == to_string(p)
        n == Len(proof_string)
    IN  \A i \in 1..Min(ProofSuffixLen, n) : proof_string[n - i + 1] = 48

\* lib.rs 125-129: d is the digest of the String x
calculate_string_hash(x, d) == Finish(StrBytes(x), d)

\* lib.rs 95: a caller calls Block::new(transactions, last_hash)
Block_new_call(ts, lh) ==
    /\ pc \in {"idle", "done"}
    /\ nblocks < MaxBlocks
    /\ nblocks' = nblocks + 1
    /\ transactions' = ts
    /\ last_hash' = lh
    /\ pc' = "pow_init"
    /\ UNCHANGED <<proof, string_proof, hash, block, overflow_checks, memo>>

\* the search starting at nonce 1
pow_init_from_one ==
    /\ pc = "pow_init"
    /\ proof' = 1
    /\ string_proof' = to_string(last_hash) \o to_string(1)
    /\ \E d \in Digests :
          /\ calculate_string_hash(string_proof', d)
          /\ hash' = d
    /\ pc' = "pow_loop"
    /\ UNCHANGED <<transactions, last_hash, block, nblocks, overflow_checks>>

\* lib.rs 133-135
pow_init ==
    /\ pc = "pow_init"
    /\ proof' = 0
    /\ string_proof' = to_string(last_hash) \o to_string(0)
    /\ \E d \in Digests :
          /\ calculate_string_hash(string_proof', d)
          /\ hash' = d
    /\ pc' = "pow_loop"
    /\ UNCHANGED <<transactions, last_hash, block, nblocks, overflow_checks>>

\* lib.rs 137-141, one iteration.  proof += 1 on u64::MAX panics in a build with
\* overflow checks and wraps to 0 in one without.
pow_loop ==
    /\ pc = "pow_loop"
    /\ ~is_proof_valid(hash)
    /\ IF proof = MaxNonce /\ overflow_checks
         THEN /\ pc' = "panic"
              /\ UNCHANGED <<proof, string_proof, hash, memo>>
         ELSE /\ proof' = (proof + 1) % (MaxNonce + 1)
              /\ string_proof' = to_string(last_hash) \o to_string(proof')
              /\ \E d \in Digests :
                    /\ calculate_string_hash(string_proof', d)
                    /\ hash' = d
              /\ pc' = "pow_loop"
    /\ UNCHANGED <<transactions, last_hash, block, nblocks, overflow_checks>>

\* lib.rs 137 and 143: the loop ends and the digest is returned
pow_return ==
    /\ pc = "pow_loop"
    /\ is_proof_valid(hash)
    /\ pc' = "block_hash"
    /\ UNCHANGED <<transactions, last_hash, proof, string_proof, hash, block,
                   nblocks, overflow_checks, memo>>

\* Block::new with the values of the proof and hash fields exchanged
Block_new_return_swapped ==
    /\ pc = "block_hash"
    /\ \E d \in Digests :
          /\ Finish(VecBytes(transactions), d)
          /\ block' = Append(block, [proof |-> d, hash |-> hash,
                                    transactions |-> transactions,
                                    last_hash |-> last_hash])
    /\ pc' = "done"
    /\ UNCHANGED <<transactions, last_hash, proof, string_proof, hash,
                   nblocks, overflow_checks>>

\* lib.rs 96-101 (and calculate_hash, 104-108): the Block is built, its proof the
\* value calculate_proof_of_work returned
Block_new_return ==
    /\ pc = "block_hash"
    /\ \E d \in Digests :
          /\ Finish(VecBytes(transactions), d)
          /\ block' = Append(block, [proof |-> hash, hash |-> d,
                                    transactions |-> transactions,
                                    last_hash |-> last_hash])
    /\ pc' = "done"
    /\ UNCHANGED <<transactions, last_hash, proof, string_proof, hash,
                   nblocks, overflow_checks>>

\* the batches given to Block::new
Batches == {<<>>,
            <<Transaction_new(Bob, Alice, Amt10), Transaction_new(Alice, Bob, Amt0_29)>>}

InitBlock ==
    /\ Blockchain_new /\ InitCaller
    /\ memo = <<>>
    /\ pc = "idle"
    /\ transactions = <<>>
    /\ last_hash = 0
    /\ proof = 0
    /\ string_proof = <<>>
    /\ hash = 0
    /\ block = <<>>
    /\ nblocks = 0
    /\ overflow_checks \in BOOLEAN
    /\ txHash = <<>>
    /\ anchor = <<>>
    /\ valid = FALSE

NextBlock ==
    \/ (\E ts \in Batches, lh \in Anchors : Block_new_call(ts, lh))
          /\ UNCHANGED <<ledgerVars, callVars, txHash, auxVars>>
    \/ pow_init /\ UNCHANGED <<ledgerVars, callVars, txHash, auxVars>>
    \/ pow_loop /\ UNCHANGED <<ledgerVars, callVars, txHash, auxVars>>
    \/ pow_return /\ UNCHANGED <<ledgerVars, callVars, txHash, auxVars>>
    \/ Block_new_return /\ UNCHANGED <<ledgerVars, callVars, txHash, auxVars>>

SpecBlock == InitBlock /\ [][NextBlock]_vars

----------------------------------------------------------------------------
(* Block::calculate_hash (lib.rs 104-108) of the last Block built, the     *)
(* digest add_block takes of blocks.last() (lib.rs 162), and Block::new on *)
(* such a digest.                                                          *)

Block_calculate_hash(i) ==
    /\ pc = "done"
    /\ i = Len(block)
    /\ i \notin DOMAIN anchor
    /\ \E d \in Digests :
          /\ Finish(BlockBytes(block[i]), d)
          /\ anchor' = (i :> d) @@ anchor
    /\ UNCHANGED <<blockVars, valid>>

\* the batch every Block of a chain is given
ChainBatches == {<<Transaction_new(Bob, Alice, Amt10)>>}

\* the digests taken of Blocks so far
AnchorsTaken == {anchor[i] : i \in DOMAIN anchor}

NextChain ==
    \/ (\E ts \in ChainBatches, lh \in Anchors \cup AnchorsTaken :
            Block_new_call(ts, lh))
          /\ UNCHANGED <<ledgerVars, callVars, txHash, auxVars>>
    \/ pow_init /\ UNCHANGED <<ledgerVars, callVars, txHash, auxVars>>
    \/ pow_loop /\ UNCHANGED <<ledgerVars, callVars, txHash, auxVars>>
    \/ pow_return /\ UNCHANGED <<ledgerVars, callVars, txHash, auxVars>>
    \/ Block_new_return /\ UNCHANGED <<ledgerVars, callVars, txHash, auxVars>>
    \/ (\E i \in 1..Len(block) : Block_calculate_hash(i))
          /\ UNCHANGED <<ledgerVars, callVars, txHash>>

SpecChain == InitBlock /\ [][NextChain]_vars

----------------------------------------------------------------------------
(* Block::is_proof_valid (lib.rs 112-122) on a digest of its own.          *)

is_proof_valid_call ==
    /\ pc = "check"
    /\ valid' = is_proof_valid(hash)
    /\ pc' = "checked"
    /\ UNCHANGED <<transactions, last_hash, proof, string_proof, hash, block,
                   nblocks, overflow_checks, memo, anchor>>

InitValid ==
    /\ Blockchain_new /\ InitCaller
    /\ memo = <<>>
    /\ pc = "check"
    /\ transactions = <<>>
    /\ last_hash = 0
    /\ proof = 0
    /\ string_proof = <<>>
    /\ hash \in DigestSamples
    /\ block = <<>>
    /\ nblocks = 0
    /\ overflow_checks = FALSE
    /\ txHash = <<>>
    /\ anchor = <<>>
    /\ valid = FALSE

NextValid == is_proof_valid_call /\ UNCHANGED <<ledgerVars, callVars, txHash>>

SpecValid == InitValid /\ [][NextValid]_vars

----------------------------------------------------------------------------
(* Transaction::calculate_hash (lib.rs 84-88) of a Transaction.            *)

Transaction_calculate_hash(t) ==
    /\ t \notin DOMAIN txHash
    /\ Cardinality(DOMAIN txHash) < MaxHashed
    /\ \E d \in Digests :
          /\ Finish(TransactionBytes(t), d)
          /\ txHash' = (t :> d) @@ txHash

InitTx == Blockchain_new /\ InitCaller /\ InitIdle

NextTx ==
    (\E t \in HashedTxs : Transaction_calculate_hash(t))
        /\ UNCHANGED <<ledgerVars, callVars, blockVars, auxVars>>

SpecTx == InitTx /\ [][NextTx]_vars

----------------------------------------------------------------------------
(* The specification's reference values, which lib.rs does not define.     *)

\* the genesis sentinel of spec.md 4.5: "a defined constant, e.g. zero"
GenesisSentinel == 0

\* the exact whole-unit part of an amount
Whole(a) == a.m \div (2 ^ a.e)

\* the exact hundredths of an amount's fractional part, truncated
Hundredths(a) == ((a.m % (2 ^ a.e)) * 100) \div (2 ^ a.e)

----------------------------------------------------------------------------
(* Claims, checked under Spec (the ledger).                                *)

\* C1: every add_block call leaves pending_transactions empty, blocks exactly
\* one element longer and size exactly one greater than before the call.
C1_AddBlockSealsQueue ==
    [][calls' = calls + 1 =>
          /\ pending_transactions' = <<>>
          /\ Len(blocks') = Len(blocks) + 1
          /\ size' = size + 1]_vars

\* C2: add_block on a ledger whose blocks sequence is empty does not panic: the
\* call completes.
C2_AddBlockOnEmptyChainCompletes ==
    [][(calls' = calls + 1 /\ blocks = <<>>) => outcome' = "ok"]_vars

\* C3: the first block's last_hash is the genesis sentinel, every later block's
\* last_hash is the digest of the block before it, and after two add_block
\* calls the ledger holds two blocks and get_size is 2.
C3_ChainLinkage ==
    /\ \A i \in 1..Len(blocks) :
          IF i = 1
            THEN blocks[i].last_hash = GenesisSentinel
            ELSE /\ BlockBytes(blocks[i - 1]) \in DOMAIN memo
                 /\ blocks[i].last_hash = memo[BlockBytes(blocks[i - 1])]
    /\ calls = 2 => (size = 2 /\ Len(blocks) = 2)

\* C4: size equals the length of blocks in every reachable state, and get_size
\* returns that value and changes no field of the ledger.
C4_SizeIsBlockCount ==
    /\ size = Len(blocks)
    /\ [][/\ size' = Len(blocks')
          /\ lastOp' = "get_size" =>
                (ret' = Len(blocks) /\ UNCHANGED ledgerVars)]_vars

\* C4 witness: get_size has returned on a ledger with queued transactions, after
\* an add_block call.
C4_Witness ==
    /\ lastOp = "get_size"
    /\ ret = Len(blocks)
    /\ Len(pending_transactions) >= 2
    /\ calls >= 1

\* C5: add_transaction succeeds; afterwards the queue is the previous queue with
\* the transaction appended last, and blocks and size are unchanged.
C5_AddTransactionAppends ==
    [][lastOp' = "add_transaction" =>
          /\ outcome' = "ok"
          /\ pending_transactions' = Append(pending_transactions, arg')
          /\ UNCHANGED <<size, blocks>>]_vars

\* C5 witness: add_transaction has appended to a queue that already held two
\* other transactions, after an add_block call.
C5_Witness ==
    /\ lastOp = "add_transaction"
    /\ Len(pending_transactions) = 3
    /\ pending_transactions[3] = arg
    /\ pending_transactions[1] # arg
    /\ pending_transactions[2] # arg
    /\ calls >= 1

\* C6: the block add_block appends holds exactly the transactions that were
\* pending before the call, in their order, and the earlier blocks are kept.
C6_BlockHoldsPendingBatch ==
    [][(calls' = calls + 1 /\ Len(pending_transactions) >= 2) =>
          /\ Len(blocks') = Len(blocks) + 1
          /\ blocks'[Len(blocks')].transactions = pending_transactions
          /\ SubSeq(blocks', 1, Len(blocks)) = blocks]_vars

\* C7: add_block with an empty pending queue succeeds, appends a block with no
\* transactions and increments size.
C7_EmptyBatchBlock ==
    [][(calls' = calls + 1 /\ pending_transactions = <<>>) =>
          /\ outcome' = "ok"
          /\ size' = size + 1
          /\ Len(blocks') = Len(blocks) + 1
          /\ blocks'[Len(blocks')].transactions = <<>>]_vars

\* C12: blocks is append-only: every step keeps the blocks it had, in place and
\* unmodified, as a prefix of the new sequence, and size never decreases.
C12_BlocksAppendOnly ==
    [][/\ Len(blocks') >= Len(blocks)
       /\ SubSeq(blocks', 1, Len(blocks)) = blocks
       /\ size' >= size]_vars

\* C12 witness: transactions were queued and add_block was called twice.
C12_Witness ==
    /\ calls = 2
    /\ Len(pending_transactions) >= 1
    /\ lastOp = "add_transaction"
    /\ size = Len(blocks)

\* C15: the source's add_block never builds or appends a Block and never clears
\* the queue: after any add_block call blocks, pending_transactions and size are
\* what they were before it.
C15_AddBlockChangesNothing ==
    [][calls' = calls + 1 => UNCHANGED ledgerVars]_vars

\* C15 witness: add_block has returned to its caller twice with two
\* transactions still queued.
C15_Witness ==
    /\ lastOp = "add_block"
    /\ calls = 2
    /\ Len(pending_transactions) = 2

\* C17: whenever add_block fails, the queue keeps every transaction in order
\* and blocks and size are unchanged.
C17_FailedAddBlockKeepsLedger ==
    [][(calls' = calls + 1 /\ outcome' = "panic") =>
          /\ pending_transactions' = pending_transactions
          /\ blocks' = blocks
          /\ size' = size]_vars

\* C17 witness: add_block has failed on a ledger with a full queue, and the
\* queue still holds the three transactions.
C17_Witness ==
    /\ lastOp = "add_block"
    /\ outcome = "panic"
    /\ Len(pending_transactions) = 3
    /\ pending_transactions[1] # pending_transactions[2]

----------------------------------------------------------------------------
(* Claims, checked under SpecBlock (Block::new).                           *)

\* the String a verifier hashes for a block: last_hash and proof in decimal
Recombined(b) == StrBytes(to_string(b.last_hash) \o to_string(b.proof))

\* C8: for every Block built by Block::new, the digest of the decimal strings of
\* its last_hash and its stored proof, concatenated, ends in (up to) six '0'.
C8_StoredProofVerifies ==
    \A i \in 1..Len(block) :
        Recombined(block[i]) \in DOMAIN memo =>
            is_proof_valid(memo[Recombined(block[i])])

\* C9: when the search stands at the largest nonce with an invalid digest, the
\* attempt ends in a failure: the nonce does not wrap and the search stops.
C9_ExhaustionIsFailure ==
    [][(pc = "pow_loop" /\ ~is_proof_valid(hash) /\ proof = MaxNonce) =>
          (pc' = "panic" /\ proof' = proof)]_vars

\* every Block of bs has as hash the digest mm records for its transactions
HashFieldsAreBatchDigests(bs, mm) ==
    \A i \in 1..Len(bs) :
        /\ VecBytes(bs[i].transactions) \in DOMAIN mm
        /\ bs[i].hash = mm[VecBytes(bs[i].transactions)]

\* C11: every Block's hash field is the digest of its transaction sequence
\* alone, a Block once built never changes, and two Blocks with the same
\* transaction sequence have the same hash field.
C11_HashFieldIsBatchDigest ==
    [][/\ HashFieldsAreBatchDigests(block', memo')
       /\ \A i \in 1..Len(block'), j \in 1..Len(block') :
             block'[i].transactions = block'[j].transactions
                 => block'[i].hash = block'[j].hash
       /\ Len(block') >= Len(block)
       /\ SubSeq(block', 1, Len(block)) = block]_vars

\* C11 witness: two Blocks with the same non-empty batch, different last_hash
\* and different proof.
C11_Witness ==
    /\ Len(block) = 2
    /\ block[1].transactions = block[2].transactions
    /\ block[1].transactions # <<>>
    /\ block[1].last_hash # block[2].last_hash
    /\ block[1].proof # block[2].proof
    /\ block[1].hash = block[2].hash

\* the String hashed for nonce k in the running search
SearchString(k) == StrBytes(to_string(last_hash) \o to_string(k))

\* C13: the search tries nonces 0, 1, 2, ... in order and stops at the first
\* whose digest is valid: hash is the digest of the current nonce, every nonce
\* below it was hashed and found invalid, and the digest returned is valid.
C13_SmallestNonceWins ==
    pc \in {"pow_loop", "block_hash"} =>
        /\ SearchString(proof) \in DOMAIN memo
        /\ hash = memo[SearchString(proof)]
        /\ pc = "block_hash" => is_proof_valid(hash)
        /\ \A k \in 0..(proof - 1) :
              /\ SearchString(k) \in DOMAIN memo
              /\ ~is_proof_valid(memo[SearchString(k)])

\* C13 witness: the search has returned at nonce 2 or later.
C13_Witness ==
    /\ pc = "block_hash"
    /\ proof >= 2
    /\ is_proof_valid(hash)

----------------------------------------------------------------------------
(* Claims, checked under SpecChain (Block::new and Block::calculate_hash). *)

\* C19: the digest taken of a Block as the next anchor depends only on its
\* transaction sequence: two Blocks with equal transactions have the same
\* digest whatever their last_hash and proof, and Blocks built on the same
\* anchor have the same proof.
C19_AnchorDependsOnBatchOnly ==
    /\ \A i \in DOMAIN anchor, j \in DOMAIN anchor :
          block[i].transactions = block[j].transactions => anchor[i] = anchor[j]
    /\ \A i \in 1..Len(block), j \in 1..Len(block) :
          block[i].last_hash = block[j].last_hash => block[i].proof = block[j].proof

\* C19 witness: the digests of two Blocks with the same non-empty batch,
\* different last_hash and different proof were taken, and are equal.
C19_Witness ==
    /\ DOMAIN anchor = {1, 2}
    /\ block[1].transactions = block[2].transactions
    /\ block[1].transactions # <<>>
    /\ block[1].last_hash # block[2].last_hash
    /\ block[1].proof # block[2].proof
    /\ anchor[1] = anchor[2]

----------------------------------------------------------------------------
(* Claims, checked under SpecTx (Transaction::calculate_hash).             *)

\* C10: two transactions with equal to and from, whose amounts have the same
\* whole-unit part and the same truncated hundredths, fold the same dollars and
\* cents into the hasher and have the same hash.
C10_TruncationHashesAlike ==
    \A t1 \in DOMAIN txHash, t2 \in DOMAIN txHash :
        ( /\ t1.to = t2.to
          /\ t1.from = t2.from
          /\ Whole(t1.amount) = Whole(t2.amount)
          /\ Hundredths(t1.amount) = Hundredths(t2.amount) )
        => /\ Dollars(t1.amount) = Dollars(t2.amount)
           /\ Cents(t1.amount) = Cents(t2.amount)
           /\ txHash[t1] = txHash[t2]

\* C18: every amount that is zero or negative folds dollars 0 and cents 0, so
\* two transactions with equal to and from and non-positive amounts hash alike.
C18_NonPositiveAmountsHashAlike ==
    \A t1 \in DOMAIN txHash, t2 \in DOMAIN txHash :
        ( /\ t1.to = t2.to
          /\ t1.from = t2.from
          /\ t1.amount.m <= 0
          /\ t2.amount.m <= 0 )
        => /\ Dollars(t1.amount) = 0 /\ Cents(t1.amount) = 0
           /\ Dollars(t2.amount) = 0 /\ Cents(t2.amount) = 0
           /\ TransactionBytes(t1) = TransactionBytes(t2)
           /\ txHash[t1] = txHash[t2]

\* C18 witness: -5.0 and -700.25 between the same addresses were both hashed.
C18_Witness ==
    \E t1 \in DOMAIN txHash, t2 \in DOMAIN txHash :
        /\ t1.to = t2.to
        /\ t1.from = t2.from
        /\ t1.amount = AmtNeg5
        /\ t2.amount = AmtNeg700
        /\ txHash[t1] = txHash[t2]

----------------------------------------------------------------------------
(* Claims, checked under SpecValid (Block::is_proof_valid).                *)

\* C14, as claimed: every digest whose decimal string has fewer than six digits
\* (a digest below 100000) satisfies the validity predicate.
C14_ShortDigestIsValid ==
    (pc = "checked" /\ Len(to_string(hash)) < ProofSuffixLen) => valid

\* C14, amended: a digest whose decimal string has fewer than six digits
\* satisfies the validity predicate exactly when it is 0.
C14_ShortDigestValidOnlyIfZero ==
    (pc = "checked" /\ Len(to_string(hash)) < ProofSuffixLen) =>
        (valid <=> hash = 0)

\* C14 witness: a non-zero digest of fewer than six digits was checked and
\* found invalid.
C14_Witness ==
    /\ pc = "checked"
    /\ hash > 0
    /\ Len(to_string(hash)) < ProofSuffixLen
    /\ ~valid

\* C16: is_proof_valid(d) is true exactly when d mod 1000000 = 0, which
\* includes 0 and excludes every non-zero d below 1000000.
C16_ValidIffMultipleOfMillion ==
    pc = "checked" => (valid <=> hash % 1000000 = 0)

\* C16 witness: a non-zero multiple of 1000000 was checked and found valid.
C16_Witness ==
    /\ pc = "checked"
    /\ hash > 0
    /\ hash % 1000000 = 0
    /\ valid

====
